---- MODULE Spec2Model ----
(***************************************************************************)
(* A model of the arbitrage bot: the ArbitrageExecutor settlement contract *)
(* (contracts/ArbritageExecutor.sol), the execution orchestrator of the    *)
(* design and the two dashboards (pages/index.js, frontend/app/page.jsx).  *)
(*                                                                         *)
(* One transaction of the contract is one step: the EVM runs a call to     *)
(* completion and either commits all of its effects or reverts them all.   *)
(* What a transaction did on the way (the external calls it made, in       *)
(* order) is kept in last.trace, also for a reverted transaction.          *)
(***************************************************************************)
EXTENDS Integers, Sequences, FiniteSets, TLC

\* the settlement contract and the token it trades
VARIABLES owner, approvedDexRouters, balanceOf, allowance, lastApproval, last

\* the execution orchestrator
VARIABLES executions, lastSubmit

\* a dashboard
VARIABLES page, apiKey, opportunities, trades, marketData, jobs, sent,
          configLog, configPending

\* a dashboard's websocket connections and what they feed
VARIABLES sockets, wsRef, timers, mounted, isConnected, pings,
          openedAfterCleanup, priceHistory, received

contractVars == <<owner, approvedDexRouters, balanceOf, allowance, lastApproval, last>>

orchestratorVars == <<executions, lastSubmit>>

dashboardVars == <<page, apiKey, opportunities, trades, marketData, jobs, sent,
                   configLog, configPending>>

socketVars == <<sockets, wsRef, timers, mounted, isConnected, pings,
                openedAfterCleanup, priceHistory, received>>

vars == <<contractVars, orchestratorVars, dashboardVars, socketVars>>

-----------------------------------------------------------------------------
(* Addresses and amounts *)

\* externally owned accounts that call the contract
Users == {"alice", "bob"}

\* DEX router contracts
DexAddr == {"dexA", "dexB"}

\* address(this)
This == "this"

Tokens == {"tokA"}

Holders == {This} \cup DexAddr \cup Users

\* largest amount passed to a call
MaxAmount == 1

\* the account that deploys the contract: Ownable(msg.sender)
Deployer == "alice"

\* what each account holds of each token at deployment
InitialBalance(h) ==
    IF h \in {This, "dexA"} THEN 1 ELSE 0

Amounts == 0..MaxAmount

-----------------------------------------------------------------------------
(* The external contracts the executor calls *)

\* What the calldata of a leg makes the router do: revert, nothing, send
\* one unit of tok to the executor, or take one unit of tok from it
\* (transferFrom, within the allowance the executor gave the router).
Payloads ==
    {[kind |-> "revert", tok |-> "tokA", amt |-> 0],
     [kind |-> "noop", tok |-> "tokA", amt |-> 0]}
    \cup {[kind |-> k, tok |-> t, amt |-> 1] :
            k \in {"push", "pull"}, t \in Tokens}

\* How an ERC-20 answers transfer/approve: it does it and returns true, it
\* reverts, or it returns false and does nothing.
TokenOutcomes == {"ok", "revert", "false"}

Move(bal, tok, from, to, amt) ==
    IF from = to THEN bal
    ELSE [bal EXCEPT ![tok][from] = @ - amt, ![tok][to] = @ + amt]

\* dex.call(data): (success, state after). A call that fails leaves no effect.
RouterCall(bal, allow, dex, data) ==
    CASE data.kind = "noop" ->
           [success |-> TRUE, bal |-> bal, allow |-> allow]
      [] data.kind = "push" /\ bal[data.tok][dex] >= data.amt ->
           [success |-> TRUE,
            bal |-> Move(bal, data.tok, dex, This, data.amt),
            allow |-> allow]
      [] data.kind = "pull" /\ bal[data.tok][This] >= data.amt
                            /\ allow[data.tok][dex] >= data.amt ->
           [success |-> TRUE,
            bal |-> Move(bal, data.tok, This, dex, data.amt),
            allow |-> [allow EXCEPT ![data.tok][dex] = @ - data.amt]]
      [] OTHER ->
           [success |-> FALSE, bal |-> bal, allow |-> allow]

-----------------------------------------------------------------------------
(* The contract *)

\* a mutation: the deployer, not the current owner, passes
onlyOwnerDeployer(caller) ==
    caller = Deployer

\* modifier onlyOwner
onlyOwner(caller) ==
    caller = owner

\* the result of a transaction that reverts: no effect, no event
Revert(reason, trace) ==
    [ok |-> FALSE, reason |-> reason, trace |-> trace, logs |-> <<>>,
     bal |-> balanceOf, allow |-> allowance]

\* a mutation: the assignment flips the entry
SetApprovalFlip(m, router, approved) ==
    [m EXCEPT ![router] = (m[router] # approved)]

\* a mutation: the assignment reaches every router
SetApprovalAll(m, router, approved) ==
    [r \in DOMAIN m |-> approved]

\* approvedDexRouters[router] = approved
SetApproval(m, router, approved) ==
    [m EXCEPT ![router] = approved]

\* a mutation: the buy router is checked twice
RequireApprovedBuyOnly(buyDex, sellDex) ==
    IF ~approvedDexRouters[buyDex] THEN "Buy DEX not approved"
    ELSE "ok"

\* the two require(approvedDexRouters[...]) at the head of executeArbitrage
RequireApproved(buyDex, sellDex) ==
    IF ~approvedDexRouters[buyDex] THEN "Buy DEX not approved"
    ELSE IF ~approvedDexRouters[sellDex] THEN "Sell DEX not approved"
    ELSE "ok"

\* One entry of last.trace: an external call the transaction made (to a
\* router, to the token) or an event it emitted, with what came back.
CallStep(dex, leg, success) ==
    [op |-> "call", target |-> dex, leg |-> leg, success |-> success, value |-> 0]

ReadStep(token, value) ==
    [op |-> "balanceOf", target |-> token, leg |-> "none", success |-> TRUE,
     value |-> value]

EmitStep(name) ==
    [op |-> "emit", target |-> name, leg |-> "none", success |-> TRUE, value |-> 0]

TokenStep(op, token, success) ==
    [op |-> op, target |-> token, leg |-> "none", success |-> success, value |-> 0]

\* a mutation: require(buySuccess) is missing
ExecuteLegsNoBuyCheck(buyDex, sellDex, buyData, sellData) ==
    LET buy == RouterCall(balanceOf, allowance, buyDex, buyData)
        sell == RouterCall(buy.bal, buy.allow, sellDex, sellData)
    IN  IF ~sell.success
        THEN [ok |-> FALSE, reason |-> "Sell transaction failed",
              trace |-> <<CallStep(buyDex, "buy", buy.success),
                          CallStep(sellDex, "sell", sell.success)>>,
              bal |-> balanceOf, allow |-> allowance]
        ELSE [ok |-> TRUE, reason |-> "",
              trace |-> <<CallStep(buyDex, "buy", buy.success),
                          CallStep(sellDex, "sell", sell.success)>>,
              bal |-> sell.bal, allow |-> sell.allow]

\* a mutation: the sell leg is called first
ExecuteLegsSellFirst(buyDex, sellDex, buyData, sellData) ==
    LET sell == RouterCall(balanceOf, allowance, sellDex, sellData)
        buy == RouterCall(sell.bal, sell.allow, buyDex, buyData)
    IN  IF ~sell.success
        THEN [ok |-> FALSE, reason |-> "Sell transaction failed",
              trace |-> <<CallStep(sellDex, "sell", sell.success)>>,
              bal |-> balanceOf, allow |-> allowance]
        ELSE IF ~buy.success
        THEN [ok |-> FALSE, reason |-> "Buy transaction failed",
              trace |-> <<CallStep(sellDex, "sell", sell.success),
                          CallStep(buyDex, "buy", buy.success)>>,
              bal |-> balanceOf, allow |-> allowance]
        ELSE [ok |-> TRUE, reason |-> "",
              trace |-> <<CallStep(sellDex, "sell", sell.success),
                          CallStep(buyDex, "buy", buy.success)>>,
              bal |-> buy.bal, allow |-> buy.allow]

\* the two legs: buyDex.call(buyData), require, sellDex.call(sellData), require
ExecuteLegs(buyDex, sellDex, buyData, sellData) ==
    LET buy == RouterCall(balanceOf, allowance, buyDex, buyData)
        sell == RouterCall(buy.bal, buy.allow, sellDex, sellData)
    IN  IF ~buy.success
        THEN [ok |-> FALSE, reason |-> "Buy transaction failed",
              trace |-> <<CallStep(buyDex, "buy", buy.success)>>,
              bal |-> balanceOf, allow |-> allowance]
        ELSE IF ~sell.success
        THEN [ok |-> FALSE, reason |-> "Sell transaction failed",
              trace |-> <<CallStep(buyDex, "buy", buy.success),
                          CallStep(sellDex, "sell", sell.success)>>,
              bal |-> balanceOf, allow |-> allowance]
        ELSE [ok |-> TRUE, reason |-> "",
              trace |-> <<CallStep(buyDex, "buy", buy.success),
                          CallStep(sellDex, "sell", sell.success)>>,
              bal |-> sell.bal, allow |-> sell.allow]

\* a mutation: a settlement that breaks even passes
ProfitGeneratedOrEven(initialBalance, finalBalance) ==
    finalBalance >= initialBalance

\* require(finalBalance > initialBalance, "No profit generated")
ProfitGenerated(initialBalance, finalBalance) ==
    finalBalance > initialBalance

ArbitrageExecuted(token, buyDex, sellDex, amount, profit) ==
    [name |-> "ArbitrageExecuted", token |-> token, buyDex |-> buyDex,
     sellDex |-> sellDex, amount |-> amount, profit |-> profit]

FundsWithdrawn(token, to, amount) ==
    [name |-> "FundsWithdrawn", token |-> token, to |-> to, amount |-> amount]

\* the body of executeArbitrage, run to its end
executeArbitrageRun(caller, token, buyDex, sellDex, buyData, sellData, amount) ==
    IF ~onlyOwner(caller) THEN Revert("OwnableUnauthorizedAccount", <<>>)
    ELSE IF RequireApproved(buyDex, sellDex) # "ok"
    THEN Revert(RequireApproved(buyDex, sellDex), <<>>)
    ELSE
      LET initialBalance == balanceOf[token][This]
          legs == ExecuteLegs(buyDex, sellDex, buyData, sellData)
      IN  IF ~legs.ok
          THEN Revert(legs.reason, <<ReadStep(token, initialBalance)>> \o legs.trace)
          ELSE
            LET finalBalance == legs.bal[token][This]
                profit == finalBalance - initialBalance
            IN  IF ~ProfitGenerated(initialBalance, finalBalance)
                THEN Revert("No profit generated",
                            <<ReadStep(token, initialBalance)>> \o legs.trace
                            \o <<ReadStep(token, finalBalance)>>)
                ELSE [ok |-> TRUE, reason |-> "",
                      trace |-> <<ReadStep(token, initialBalance)>> \o legs.trace
                                \o <<ReadStep(token, finalBalance),
                                     EmitStep("ArbitrageExecuted")>>,
                      logs |-> <<ArbitrageExecuted(token, buyDex, sellDex, amount, profit)>>,
                      bal |-> legs.bal, allow |-> legs.allow]

\* the body of withdrawFunds; outcome is the token's answer to transfer
withdrawFundsRun(caller, token, to, amount, outcome) ==
    IF ~onlyOwner(caller) THEN Revert("OwnableUnauthorizedAccount", <<>>)
    ELSE IF outcome = "revert" \/ (outcome = "ok" /\ balanceOf[token][This] < amount)
    THEN Revert("transfer reverted", <<TokenStep("transfer", token, FALSE)>>)
    ELSE [ok |-> TRUE, reason |-> "",
          trace |-> <<TokenStep("transfer", token, outcome = "ok"),
                      EmitStep("FundsWithdrawn")>>,
          logs |-> <<FundsWithdrawn(token, to, amount)>>,
          bal |-> IF outcome = "ok" THEN Move(balanceOf, token, This, to, amount)
                  ELSE balanceOf,
          allow |-> allowance]

\* the body of approveToken; outcome is the token's answer to approve
approveTokenRun(caller, token, spender, amount, outcome) ==
    IF ~onlyOwner(caller) THEN Revert("OwnableUnauthorizedAccount", <<>>)
    ELSE IF outcome = "revert"
    THEN Revert("approve reverted", <<TokenStep("approve", token, FALSE)>>)
    ELSE [ok |-> TRUE, reason |-> "",
          trace |-> <<TokenStep("approve", token, outcome = "ok")>>,
          logs |-> <<>>,
          bal |-> balanceOf,
          allow |-> IF outcome = "ok"
                    THEN [allowance EXCEPT ![token][spender] = amount]
                    ELSE allowance]

\* The record of a transaction. repeat marks a successful
\* setDexRouterApproval that follows one with the same arguments.
Tx(fn, caller, args, r) ==
    [fn |-> fn, caller |-> caller, args |-> args, ok |-> r.ok,
     reason |-> r.reason, trace |-> r.trace, logs |-> r.logs, repeat |-> FALSE]

NoArgs ==
    [token |-> "", buyDex |-> "", sellDex |-> "", router |-> "",
     approved |-> FALSE, to |-> "", amount |-> 0]

-----------------------------------------------------------------------------
(* Transactions *)

setDexRouterApproval(caller, router, approved) ==
    /\ last' = [fn |-> "setDexRouterApproval", caller |-> caller,
                args |-> [NoArgs EXCEPT !.router = router, !.approved = approved],
                ok |-> onlyOwner(caller),
                reason |-> IF onlyOwner(caller) THEN ""
                           ELSE "OwnableUnauthorizedAccount",
                trace |-> <<>>, logs |-> <<>>,
                repeat |-> /\ onlyOwner(caller)
                           /\ last.fn = "setDexRouterApproval" /\ last.ok
                           /\ last.args.router = router
                           /\ last.args.approved = approved]
    /\ IF onlyOwner(caller)
       THEN /\ approvedDexRouters' = SetApproval(approvedDexRouters, router, approved)
            /\ lastApproval' = [lastApproval EXCEPT ![router] =
                                    IF approved THEN "true" ELSE "false"]
       ELSE UNCHANGED <<approvedDexRouters, lastApproval>>
    /\ UNCHANGED <<owner, balanceOf, allowance>>
    /\ UNCHANGED <<orchestratorVars, dashboardVars, socketVars>>

executeArbitrage(caller, token, buyDex, sellDex, buyData, sellData, amount) ==
    LET r == executeArbitrageRun(caller, token, buyDex, sellDex,
                                 buyData, sellData, amount)
    IN  /\ last' = Tx("executeArbitrage", caller,
                      [NoArgs EXCEPT !.token = token, !.buyDex = buyDex,
                                     !.sellDex = sellDex, !.amount = amount], r)
        /\ balanceOf' = r.bal
        /\ allowance' = r.allow
        /\ UNCHANGED <<owner, approvedDexRouters, lastApproval>>
        /\ UNCHANGED <<orchestratorVars, dashboardVars, socketVars>>

withdrawFunds(caller, token, to, amount, outcome) ==
    LET r == withdrawFundsRun(caller, token, to, amount, outcome)
    IN  /\ last' = Tx("withdrawFunds", caller,
                      [NoArgs EXCEPT !.token = token, !.to = to,
                                     !.amount = amount], r)
        /\ balanceOf' = r.bal
        /\ allowance' = r.allow
        /\ UNCHANGED <<owner, approvedDexRouters, lastApproval>>
        /\ UNCHANGED <<orchestratorVars, dashboardVars, socketVars>>

approveToken(caller, token, spender, amount, outcome) ==
    LET r == approveTokenRun(caller, token, spender, amount, outcome)
    IN  /\ last' = Tx("approveToken", caller,
                      [NoArgs EXCEPT !.token = token, !.router = spender,
                                     !.amount = amount], r)
        /\ balanceOf' = r.bal
        /\ allowance' = r.allow
        /\ UNCHANGED <<owner, approvedDexRouters, lastApproval>>
        /\ UNCHANGED <<orchestratorVars, dashboardVars, socketVars>>

\* Ownable.transferOwnership, which the contract inherits (is Ownable)
transferOwnership(caller, newOwner) ==
    /\ last' = [fn |-> "transferOwnership", caller |-> caller,
                args |-> [NoArgs EXCEPT !.to = newOwner],
                ok |-> onlyOwner(caller),
                reason |-> IF onlyOwner(caller) THEN ""
                           ELSE "OwnableUnauthorizedAccount",
                trace |-> <<>>, logs |-> <<>>, repeat |-> FALSE]
    /\ owner' = IF onlyOwner(caller) THEN newOwner ELSE owner
    /\ UNCHANGED <<approvedDexRouters, balanceOf, allowance, lastApproval>>
    /\ UNCHANGED <<orchestratorVars, dashboardVars, socketVars>>

-----------------------------------------------------------------------------
(* The execution orchestrator (design sections 3, 4.4 and 5) *)

Fingerprints == {"fpX", "fpY"}

\* most executions the orchestrator keeps in the model
MaxExecutions == 3

Terminal == {"CONFIRMED", "REVERTED", "FAILED"}

\* a mutation: only an execution already sent to the chain blocks a submit
HasActiveSubmittedOnly(fingerprint) ==
    \E i \in DOMAIN executions :
        /\ executions[i].opportunityFingerprint = fingerprint
        /\ executions[i].status = "SUBMITTED"

\* a non-terminal execution exists for the fingerprint
HasActive(fingerprint) ==
    \E i \in DOMAIN executions :
        /\ executions[i].opportunityFingerprint = fingerprint
        /\ executions[i].status \notin Terminal

\* submit(opportunity): a no-op when the fingerprint has a non-terminal
\* execution; the check and the insertion are one step (the per-fingerprint
\* lock of section 5), so concurrent submits are an interleaving of these.
submit(fingerprint) ==
    /\ Len(executions) < MaxExecutions \/ HasActive(fingerprint)
    /\ lastSubmit' = [opportunityFingerprint |-> fingerprint,
                      accepted |-> ~HasActive(fingerprint)]
    /\ executions' = IF HasActive(fingerprint) THEN executions
                     ELSE Append(executions,
                                 [opportunityFingerprint |-> fingerprint,
                                  status |-> "PENDING"])
    /\ UNCHANGED <<contractVars, dashboardVars, socketVars>>

\* the payload is built and sent to the settlement contract
SendToChain(i) ==
    /\ i \in DOMAIN executions
    /\ executions[i].status = "PENDING"
    /\ executions' = [executions EXCEPT ![i].status = "SUBMITTED"]
    /\ lastSubmit' = [opportunityFingerprint |-> "", accepted |-> FALSE]
    /\ UNCHANGED <<contractVars, dashboardVars, socketVars>>

\* the settlement is confirmed, reverts, or is given up after the polling
Resolve(i, status) ==
    /\ i \in DOMAIN executions
    /\ executions[i].status = "SUBMITTED"
    /\ executions' = [executions EXCEPT ![i].status = status]
    /\ lastSubmit' = [opportunityFingerprint |-> "", accepted |-> FALSE]
    /\ UNCHANGED <<contractVars, dashboardVars, socketVars>>

-----------------------------------------------------------------------------
(* The dashboards: pages/index.js ("pages") and frontend/app/page.jsx ("app") *)

Pages == {"pages", "app"}

\* values typed into the API key field; "" is the empty field
Keys == {"", "k1", "k2"}

\* most fetchData invocations in flight at once
MaxJobs == 2

\* most config-write requests sent
MaxToggles == 2

\* what a list endpoint answers
ResponseLists == {<<>>, <<1>>, <<2, 1>>}

\* what /market-data answers: an object; "{}" is the empty object the
\* state starts with, "[]" an empty array
MarketSnapshots == {"snapshot"}

Outcomes == {"ok", "notok", "throw"}

\* the header `Bearer ${apiKey}`
Authorization(key) ==
    [scheme |-> "Bearer", credential |-> key]

\* a request as it goes out: key is the apiKey of the closure that sends it,
\* current the apiKey of the component when it goes out
Request(endpoint, method, key, current) ==
    [endpoint |-> endpoint, method |-> method, auth |-> Authorization(key),
     current |-> current]

\* a mutation: the guard is missing
HasApiKeyAlways(key) ==
    TRUE

\* if (!apiKey) return;
HasApiKey(key) ==
    key # ""

\* body: JSON.stringify({ automated_trading: true })
ConfigBody ==
    [automated_trading |-> TRUE]

RemoveAt(seq, i) ==
    [j \in 1..(Len(seq) - 1) |-> IF j < i THEN seq[j] ELSE seq[j + 1]]

\* the requests fetchData sends before its first await
FirstRequests(key) ==
    IF page = "pages"
    THEN <<Request("opportunities", "GET", key, key)>>
    ELSE <<Request("opportunities", "GET", key, key),
           Request("trades", "GET", key, key),
           Request("market-data", "GET", key, key)>>

\* handleApiKeyChange, the render and the effect on [apiKey] that runs
\* fetchData with the new key
handleApiKeyChange(value) ==
    /\ value # apiKey
    /\ Len(jobs) < MaxJobs \/ value = ""
    /\ apiKey' = value
    /\ IF HasApiKey(value)
       THEN /\ jobs' = Append(jobs, [key |-> value,
                                     stage |-> IF page = "pages"
                                               THEN "opportunities" ELSE "all"])
            /\ sent' = FirstRequests(value)
       ELSE /\ jobs' = jobs
            /\ sent' = <<>>
    /\ UNCHANGED <<page, opportunities, trades, marketData, configLog,
                   configPending>>
    /\ UNCHANGED <<contractVars, orchestratorVars, socketVars>>

\* pages/index.js: fetchData resumes after the await of one response
fetchDataResume(i, outcome, list, snapshot) ==
    /\ page = "pages"
    /\ i \in DOMAIN jobs
    /\ LET job == jobs[i]
       IN  /\ opportunities' = IF job.stage = "opportunities" /\ outcome = "ok"
                               THEN list ELSE opportunities
           /\ trades' = IF job.stage = "trades" /\ outcome = "ok"
                        THEN list ELSE trades
           /\ marketData' = IF job.stage = "market-data" /\ outcome = "ok"
                            THEN snapshot ELSE marketData
           /\ IF outcome = "throw" \/ job.stage = "market-data"
              THEN /\ jobs' = RemoveAt(jobs, i)
                   /\ sent' = <<>>
              ELSE LET next == IF job.stage = "opportunities" THEN "trades"
                               ELSE "market-data"
                   IN  /\ jobs' = [jobs EXCEPT ![i].stage = next]
                       /\ sent' = <<Request(next, "GET", job.key, apiKey)>>
    /\ UNCHANGED <<page, apiKey, configLog, configPending>>
    /\ UNCHANGED <<contractVars, orchestratorVars, socketVars>>

\* frontend/app/page.jsx: fetchData resumes after Promise.all
fetchDataResumeAll(i, outcomes, lists, snapshot) ==
    /\ page = "app"
    /\ i \in DOMAIN jobs
    /\ jobs' = RemoveAt(jobs, i)
    /\ sent' = <<>>
    /\ IF \E n \in 1..3 : outcomes[n] = "throw"
       THEN UNCHANGED <<opportunities, trades, marketData>>
       ELSE /\ opportunities' = IF outcomes[1] = "ok" THEN lists[1] ELSE <<>>
            /\ trades' = IF outcomes[2] = "ok" THEN lists[2] ELSE <<>>
            /\ marketData' = IF outcomes[3] = "ok" THEN snapshot ELSE "[]"
    /\ UNCHANGED <<page, apiKey, configLog, configPending>>
    /\ UNCHANGED <<contractVars, orchestratorVars, socketVars>>

\* toggleTrading up to its await
toggleTrading ==
    /\ Len(configLog) < MaxToggles \/ ~HasApiKey(apiKey)
    /\ IF HasApiKey(apiKey)
       THEN /\ sent' = <<Request("config", "POST", apiKey, apiKey)>>
            /\ configLog' = Append(configLog, ConfigBody.automated_trading)
            /\ configPending' = configPending + 1
       ELSE /\ sent' = <<>>
            /\ UNCHANGED <<configLog, configPending>>
    /\ UNCHANGED <<page, apiKey, opportunities, trades, marketData, jobs>>
    /\ UNCHANGED <<contractVars, orchestratorVars, socketVars>>

\* toggleTrading after the await: it shows an alert that tells the outcome
\* and touches no state of the component
toggleTradingResume(outcome) ==
    /\ configPending > 0
    /\ outcome \in Outcomes
    /\ configPending' = configPending - 1
    /\ sent' = <<>>
    /\ UNCHANGED <<page, apiKey, opportunities, trades, marketData, jobs, configLog>>
    /\ UNCHANGED <<contractVars, orchestratorVars, socketVars>>

-----------------------------------------------------------------------------
(* The websocket of a dashboard: connectWebSocket, its handlers, the cleanup *)
(* of the effect and the keep-alive interval                                 *)

\* WebSocket.readyState
ReadyStates == {"CONNECTING", "OPEN", "CLOSING", "CLOSED"}

\* most WebSocket objects constructed
MaxSockets == 3

\* most pings sent by the keep-alive interval
MaxPings == 2

\* most websocket messages that feed a list
MaxMessages == 21

\* newOpportunities.slice(0, 10), newTrades.slice(0, 10)
KeepOpportunities == 10

KeepTrades == 10

\* newHistory.slice(newHistory.length - 20), newHistory.slice(-20)
KeepHistory == 20

\* the `const ws` of the effect in pages/index.js: the first connection
EffectWs == 1

\* data.data of a market_update, with or without an entry for selectedPair
FeedSnapshots == {"snapshot", "snapshotNoPair"}

HasSelectedPair(snapshot) ==
    snapshot = "snapshot"

\* what a list endpoint answers in the feed: eleven entries of the server's
\* store (0 is an entry that did not come over the websocket)
FeedResponseLists == {[n \in 1..11 |-> 0]}

Min(a, b) ==
    IF a < b THEN a ELSE b

Max(a, b) ==
    IF a > b THEN a ELSE b

\* Array.prototype.slice(begin, end) with 0 <= begin, on a sequence
Slice(seq, begin, end) ==
    SubSeq(seq, Min(begin, Len(seq)) + 1, Min(end, Len(seq)))

\* Array.prototype.slice(-n)
SliceLast(seq, n) ==
    SubSeq(seq, Max(Len(seq) - n, 0) + 1, Len(seq))

\* [data.data, ...prev] cut to the first keep entries
KeepNewest(item, prev, keep) ==
    LET new == <<item>> \o prev
    IN  IF page = "pages"
        THEN IF Len(new) > keep THEN Slice(new, 0, keep) ELSE new
        ELSE Slice(new, 0, keep)

\* [...prev, { timestamp, prices }] cut to the last keep entries
KeepLatest(prev, item, keep) ==
    LET newHistory == Append(prev, item)
    IN  IF page = "pages"
        THEN IF Len(newHistory) > keep
             THEN Slice(newHistory, Len(newHistory) - keep, Len(newHistory))
             ELSE newHistory
        ELSE SliceLast(newHistory, keep)

\* a mutation: the indicator is set but never reset
SetIsConnectedTrueOnly(value) ==
    IF mounted /\ value THEN TRUE ELSE isConnected

\* setIsConnected(value): a state setter of an unmounted component does nothing
SetIsConnected(value) ==
    IF mounted THEN value ELSE isConnected

\* a mutation: the close handler sets no timer
setTimeoutNever(pending) ==
    pending

\* setTimeout(connectWebSocket, 2000)
setTimeoutConnect(pending) ==
    pending + 1

\* ws.close(): a connection that is closing or closed stays as it is
Close(readyState) ==
    IF readyState \in {"CONNECTING", "OPEN"} THEN "CLOSING" ELSE readyState

\* the connection is established: ws.onopen
onopen(i) ==
    /\ i \in DOMAIN sockets
    /\ sockets[i] = "CONNECTING"
    /\ sockets' = [sockets EXCEPT ![i] = "OPEN"]
    /\ isConnected' = SetIsConnected(TRUE)
    /\ UNCHANGED <<wsRef, timers, mounted, pings, openedAfterCleanup,
                   priceHistory, received>>
    /\ UNCHANGED <<contractVars, orchestratorVars, dashboardVars>>

\* the server starts the closing handshake: the browser sets readyState to
\* CLOSING and runs no handler
closingHandshake(i) ==
    /\ i \in DOMAIN sockets
    /\ sockets[i] = "OPEN"
    /\ sockets' = [sockets EXCEPT ![i] = "CLOSING"]
    /\ UNCHANGED <<wsRef, timers, mounted, isConnected, pings,
                   openedAfterCleanup, priceHistory, received>>
    /\ UNCHANGED <<contractVars, orchestratorVars, dashboardVars>>

\* the connection is closed or could not be established: ws.onclose
onclose(i) ==
    /\ i \in DOMAIN sockets
    /\ sockets[i] # "CLOSED"
    /\ sockets' = [sockets EXCEPT ![i] = "CLOSED"]
    /\ isConnected' = SetIsConnected(FALSE)
    /\ timers' = setTimeoutConnect(timers)
    /\ UNCHANGED <<wsRef, mounted, pings, openedAfterCleanup, priceHistory,
                   received>>
    /\ UNCHANGED <<contractVars, orchestratorVars, dashboardVars>>

\* a reconnect timer fires: connectWebSocket
connectWebSocket ==
    /\ timers > 0
    /\ Len(sockets) < MaxSockets
    /\ timers' = timers - 1
    /\ sockets' = Append(sockets, "CONNECTING")
    /\ wsRef' = Len(sockets) + 1
    /\ openedAfterCleanup' = (openedAfterCleanup \/ ~mounted)
    /\ UNCHANGED <<mounted, isConnected, pings, priceHistory, received>>
    /\ UNCHANGED <<contractVars, orchestratorVars, dashboardVars>>

\* the component unmounts: the cleanup of the websocket effect closes ws
\* (pages/index.js) or wsRef.current (frontend/app/page.jsx), and the
\* cleanup of the keep-alive effect clears the interval
unmount ==
    /\ mounted
    /\ mounted' = FALSE
    /\ LET target == IF page = "pages" THEN EffectWs ELSE wsRef
       IN  sockets' = [sockets EXCEPT ![target] = Close(sockets[target])]
    /\ UNCHANGED <<wsRef, timers, isConnected, pings, openedAfterCleanup,
                   priceHistory, received>>
    /\ UNCHANGED <<contractVars, orchestratorVars, dashboardVars>>

\* a tick of the keep-alive interval that finds the connection open
keepAlive ==
    /\ mounted
    /\ sockets[wsRef] = "OPEN"
    /\ pings < MaxPings
    /\ pings' = pings + 1
    /\ UNCHANGED <<sockets, wsRef, timers, mounted, isConnected,
                   openedAfterCleanup, priceHistory, received>>
    /\ UNCHANGED <<contractVars, orchestratorVars, dashboardVars>>

Messages ==
    received.opportunity + received.trade + received.price

MessageTypes == {"market_update", "arbitrage_opportunity", "trade_execution"}

\* ws.onmessage: a message is delivered on an open connection; data.data of
\* an opportunity, a trade or a price point is numbered by its arrival
onmessage(i, type, snapshot) ==
    /\ mounted
    /\ i \in DOMAIN sockets
    /\ sockets[i] = "OPEN"
    /\ type \in MessageTypes
    /\ LET feeds == type # "market_update" \/ HasSelectedPair(snapshot)
       IN  /\ feeds => Messages < MaxMessages
           /\ marketData' = IF type = "market_update" THEN snapshot
                            ELSE marketData
           /\ priceHistory' =
                IF type = "market_update" /\ HasSelectedPair(snapshot)
                THEN KeepLatest(priceHistory, received.price + 1, KeepHistory)
                ELSE priceHistory
           /\ opportunities' =
                IF type = "arbitrage_opportunity"
                THEN KeepNewest(received.opportunity + 1, opportunities,
                                KeepOpportunities)
                ELSE opportunities
           /\ trades' =
                IF type = "trade_execution"
                THEN KeepNewest(received.trade + 1, trades, KeepTrades)
                ELSE trades
           /\ received' =
                IF ~feeds THEN received
                ELSE IF type = "market_update"
                     THEN [received EXCEPT !.price = @ + 1]
                ELSE IF type = "arbitrage_opportunity"
                     THEN [received EXCEPT !.opportunity = @ + 1]
                ELSE [received EXCEPT !.trade = @ + 1]
    /\ UNCHANGED <<page, apiKey, jobs, sent, configLog, configPending>>
    /\ UNCHANGED <<sockets, wsRef, timers, mounted, isConnected, pings,
                   openedAfterCleanup>>
    /\ UNCHANGED <<contractVars, orchestratorVars>>

\* the component after its first render and effects: connectWebSocket has
\* run once
InitSocket ==
    /\ sockets = <<"CONNECTING">>
    /\ wsRef = 1
    /\ timers = 0
    /\ mounted = TRUE
    /\ isConnected = FALSE
    /\ pings = 0
    /\ openedAfterCleanup = FALSE
    /\ priceHistory = <<>>
    /\ received = [opportunity |-> 0, trade |-> 0, price |-> 0]

-----------------------------------------------------------------------------

InitContract ==
    /\ owner = Deployer
    /\ approvedDexRouters = [r \in DexAddr |-> FALSE]
    /\ balanceOf = [t \in Tokens |-> [h \in Holders |-> InitialBalance(h)]]
    /\ allowance = [t \in Tokens |-> [d \in DexAddr |-> 0]]
    /\ lastApproval = [r \in DexAddr |-> "unset"]
    /\ last = [fn |-> "constructor", caller |-> Deployer, args |-> NoArgs,
               ok |-> TRUE, reason |-> "", trace |-> <<>>, logs |-> <<>>,
               repeat |-> FALSE]

InitOrchestrator ==
    /\ executions = <<>>
    /\ lastSubmit = [opportunityFingerprint |-> "", accepted |-> FALSE]

\* the component after its first render and effects: the key is empty, so
\* fetchData returned at once
InitDashboard(p) ==
    /\ page = p
    /\ apiKey = ""
    /\ opportunities = <<>>
    /\ trades = <<>>
    /\ marketData = "{}"
    /\ jobs = <<>>
    /\ sent = <<>>
    /\ configLog = <<>>
    /\ configPending = 0

Init ==
    InitContract /\ InitOrchestrator /\ InitDashboard("pages") /\ InitSocket

Next ==
    \/ \E c \in Users, r \in DexAddr, b \in BOOLEAN :
         setDexRouterApproval(c, r, b)
    \/ \E c \in Users, t \in Tokens, bd \in DexAddr, sd \in DexAddr,
          bp \in Payloads, sp \in Payloads, a \in {MaxAmount} :
         executeArbitrage(c, t, bd, sd, bp, sp, a)
    \/ \E c \in Users, t \in Tokens, to \in Users, a \in Amounts,
          o \in TokenOutcomes :
         withdrawFunds(c, t, to, a, o)
    \/ \E c \in Users, t \in Tokens, s \in DexAddr, a \in Amounts,
          o \in TokenOutcomes :
         approveToken(c, t, s, a, o)
    \/ \E c \in Users, n \in Users :
         transferOwnership(c, n)

\* the settlement contract
Spec == Init /\ [][Next]_vars

NextOrchestrator ==
    \/ \E f \in Fingerprints : submit(f)
    \/ \E i \in 1..MaxExecutions : SendToChain(i)
    \/ \E i \in 1..MaxExecutions, st \in Terminal : Resolve(i, st)

\* the execution orchestrator
SpecOrchestrator == Init /\ [][NextOrchestrator]_vars

InitDashboards ==
    /\ InitContract /\ InitOrchestrator /\ InitSocket
    /\ \E p \in Pages : InitDashboard(p)

NextDashboard ==
    \/ \E k \in Keys : handleApiKeyChange(k)
    \/ \E i \in 1..MaxJobs, o \in Outcomes, l \in ResponseLists,
          m \in MarketSnapshots :
         fetchDataResume(i, o, l, m)
    \/ \E i \in 1..MaxJobs, os \in [1..3 -> Outcomes],
          ls \in [1..2 -> ResponseLists], m \in MarketSnapshots :
         fetchDataResumeAll(i, os, ls, m)
    \/ toggleTrading
    \/ \E o \in Outcomes : toggleTradingResume(o)

\* either dashboard
SpecDashboard == InitDashboards /\ [][NextDashboard]_vars

NextSocket ==
    \/ \E i \in 1..MaxSockets : onopen(i)
    \/ \E i \in 1..MaxSockets : closingHandshake(i)
    \/ \E i \in 1..MaxSockets : onclose(i)
    \/ connectWebSocket
    \/ unmount
    \/ keepAlive

\* the websocket of either dashboard
SpecSocket == InitDashboards /\ [][NextSocket]_vars

\* the event loop runs a timer that is due
FairSpecSocket == SpecSocket /\ WF_vars(connectWebSocket)

NextFeed ==
    \/ \E i \in 1..MaxSockets : onopen(i)
    \/ \E i \in 1..MaxSockets, s \in FeedSnapshots :
         onmessage(i, "market_update", s)
    \/ \E i \in 1..MaxSockets, s \in FeedSnapshots :
         onmessage(i, "arbitrage_opportunity", s)
    \/ \E i \in 1..MaxSockets, s \in FeedSnapshots :
         onmessage(i, "trade_execution", s)
    \/ handleApiKeyChange("k1")
    \/ \E i \in 1..MaxJobs, o \in Outcomes, l \in FeedResponseLists,
          m \in MarketSnapshots :
         fetchDataResume(i, o, l, m)
    \/ \E i \in 1..MaxJobs, os \in [1..3 -> Outcomes],
          ls \in [1..2 -> FeedResponseLists], m \in MarketSnapshots :
         fetchDataResumeAll(i, os, ls, m)

\* what either dashboard shows: the websocket feed and the query responses
SpecFeed == InitDashboards /\ [][NextFeed]_vars

-----------------------------------------------------------------------------
(* Properties of the settlement contract, checked under Spec *)

\* everything the contract and the token hold
ContractState == <<owner, approvedDexRouters, balanceOf, allowance>>

OwnerOnly == {"setDexRouterApproval", "executeArbitrage", "withdrawFunds", "approveToken"}

\* the external calls of the transaction to routers
RouterCalls(tx) == {i \in DOMAIN tx.trace : tx.trace[i].op = "call"}

\* the balance reads of the transaction
Reads(tx) == {i \in DOMAIN tx.trace : tx.trace[i].op = "balanceOf"}

Emits(tx) == {i \in DOMAIN tx.trace : tx.trace[i].op = "emit"}

\* C1: an executeArbitrage whose buyDex or sellDex is not approved when it is
\* called fails, calls no router, emits no event, and leaves the allow-list
\* and every balance as they were.
C1_UnapprovedRouterRejected ==
    [][(/\ last'.fn = "executeArbitrage"
        /\ \/ ~approvedDexRouters[last'.args.buyDex]
           \/ ~approvedDexRouters[last'.args.sellDex])
       => /\ ~last'.ok
          /\ RouterCalls(last') = {}
          /\ last'.logs = <<>>
          /\ approvedDexRouters' = approvedDexRouters
          /\ balanceOf' = balanceOf]_vars

\* the owner called executeArbitrage with an approved buyDex and a sellDex
\* that is not approved
C1_Witness ==
    /\ last.fn = "executeArbitrage"
    /\ last.caller = owner
    /\ approvedDexRouters[last.args.buyDex]
    /\ ~approvedDexRouters[last.args.sellDex]
    /\ ~last.ok

\* C2: an ArbitrageExecuted event comes only from an executeArbitrage whose
\* final balance of token is strictly above its initial balance, and carries
\* profit = final - initial > 0; when both legs succeed and the final balance
\* read is not above the initial one, the call fails, nothing of the legs
\* stays and no event is emitted.
C2_ProfitInvariant ==
    [][/\ \A i \in DOMAIN last'.logs :
            last'.logs[i].name = "ArbitrageExecuted" =>
              /\ last'.fn = "executeArbitrage" /\ last'.ok
              /\ last'.logs[i].token = last'.args.token
              /\ balanceOf'[last'.args.token][This] > balanceOf[last'.args.token][This]
              /\ last'.logs[i].profit
                   = balanceOf'[last'.args.token][This] - balanceOf[last'.args.token][This]
              /\ last'.logs[i].profit > 0
       /\ (/\ last'.fn = "executeArbitrage"
           /\ Cardinality(Reads(last')) = 2
           /\ \A i \in RouterCalls(last') : last'.trace[i].success
           /\ last'.trace[4].value <= last'.trace[1].value)
          => /\ ~last'.ok
             /\ last'.logs = <<>>
             /\ ContractState' = ContractState]_vars

\* a settlement went through and its event carries a positive profit
C2_Witness ==
    /\ last.fn = "executeArbitrage"
    /\ last.ok
    /\ Len(last.logs) = 1
    /\ last.logs[1].name = "ArbitrageExecuted"
    /\ last.logs[1].profit > 0

\* C3: when a leg of executeArbitrage signals failure, the call fails as a
\* whole and every balance, every allowance and the allow-list are what they
\* were before the call; a call that fails never leaves one leg applied.
C3_SettlementAtomic ==
    [][(last'.fn = "executeArbitrage")
       => /\ (\E i \in RouterCalls(last') : ~last'.trace[i].success)
               => ~last'.ok
          /\ ~last'.ok => (ContractState' = ContractState /\ last'.logs = <<>>)]_vars

\* the buy leg succeeded, the sell leg failed
C3_Witness ==
    /\ last.fn = "executeArbitrage"
    /\ \E i, j \in RouterCalls(last) :
         /\ last.trace[i].leg = "buy" /\ last.trace[i].success
         /\ last.trace[j].leg = "sell" /\ ~last.trace[j].success
    /\ ~last.ok

\* C4: a call of an owner-only function by an account that is not the owner
\* fails, makes no external call, emits nothing and changes nothing.
C4_OwnerOnly ==
    [][(last'.fn \in OwnerOnly /\ last'.caller # owner)
       => /\ ~last'.ok
          /\ last'.trace = <<>>
          /\ last'.logs = <<>>
          /\ lastApproval' = lastApproval
          /\ ContractState' = ContractState]_vars

\* the deployer, who has handed the ownership over, tried to withdraw
C4_Witness ==
    /\ last.fn = "withdrawFunds"
    /\ last.caller # owner
    /\ last.caller = Deployer
    /\ balanceOf[last.args.token][This] >= last.args.amount
    /\ last.args.amount > 0
    /\ ~last.ok

\* C8: a successful setDexRouterApproval(r, b) changes nothing but the entry
\* of r, and a second one with the same arguments right after it changes
\* nothing at all.
C8_SetApprovalIdempotentLocal ==
    [][(last'.fn = "setDexRouterApproval" /\ last'.ok)
       => /\ \A r \in DexAddr \ {last'.args.router} :
               approvedDexRouters'[r] = approvedDexRouters[r]
          /\ approvedDexRouters'[last'.args.router] = last'.args.approved
          /\ <<owner, balanceOf, allowance>>' = <<owner, balanceOf, allowance>>
          /\ last'.repeat => ContractState' = ContractState]_vars

\* the owner repeated a setDexRouterApproval while another router has the
\* other approval
C8_Witness ==
    /\ last.fn = "setDexRouterApproval"
    /\ last.ok
    /\ last.repeat
    /\ \E r \in DexAddr : approvedDexRouters[r] # last.args.approved

\* C9: in executeArbitrage the initial balance is read before any external
\* call, the buy call comes before the sell call, the sell call is not made
\* when the buy call failed, the final balance is read only after both calls
\* succeeded, and the event is emitted last.
C9_LegOrdering ==
    last.fn = "executeArbitrage" =>
      LET t == last.trace
          calls == RouterCalls(last)
      IN  /\ \A i \in calls : i > 1 /\ t[1].op = "balanceOf"
          /\ \A i \in calls : t[i].leg = "sell" =>
               \E j \in calls : j < i /\ t[j].leg = "buy" /\ t[j].success
          /\ \A i, j \in calls : (t[i].leg = "buy" /\ t[j].leg = "sell") => i < j
          /\ Cardinality({i \in calls : t[i].leg = "buy"}) <= 1
          /\ Cardinality({i \in calls : t[i].leg = "sell"}) <= 1
          /\ \A i \in Reads(last) : i > 1 =>
               /\ \E j \in calls : j < i /\ t[j].leg = "buy" /\ t[j].success
               /\ \E j \in calls : j < i /\ t[j].leg = "sell" /\ t[j].success
               /\ \A j \in calls : j < i
          /\ \A i \in Emits(last) :
               /\ i = Len(t)
               /\ \E j \in Reads(last) : 1 < j /\ j < i
          /\ last.ok => Len(t) = 5 /\ Emits(last) = {5} /\ Len(last.logs) = 1

\* a settlement ran through both legs, the second read and the event
C9_Witness ==
    /\ last.fn = "executeArbitrage"
    /\ last.ok
    /\ Len(last.trace) = 5
    /\ last.args.buyDex # last.args.sellDex

\* C10: no router is approved at deployment; the approval of a router is the
\* value of the latest successful setDexRouterApproval for it by the owner;
\* no other call and no failed call changes it; a router last set to false,
\* or never set, takes part in no successful executeArbitrage.
C10_AllowListState ==
    /\ \A r \in DexAddr : ~approvedDexRouters[r] /\ lastApproval[r] = "unset"
    /\ [][/\ \A r \in DexAddr :
               /\ approvedDexRouters'[r] = (lastApproval'[r] = "true")
               /\ IF /\ last'.fn = "setDexRouterApproval" /\ last'.ok
                     /\ last'.args.router = r
                  THEN /\ last'.caller = owner
                       /\ approvedDexRouters'[r] = last'.args.approved
                  ELSE approvedDexRouters'[r] = approvedDexRouters[r]
          /\ (last'.fn = "executeArbitrage" /\ last'.ok)
               => /\ lastApproval[last'.args.buyDex] = "true"
                  /\ lastApproval[last'.args.sellDex] = "true"]_vars

\* a router that was approved and then removed is refused as buyDex while the
\* other router is approved
C10_Witness ==
    /\ last.fn = "executeArbitrage"
    /\ last.caller = owner
    /\ ~last.ok
    /\ lastApproval[last.args.buyDex] = "false"
    /\ \E r \in DexAddr : lastApproval[r] = "true"

\* C15: a FundsWithdrawn event is emitted only by a withdrawFunds whose
\* token transfer succeeded; when the transfer signals failure, by reverting
\* or by returning false, withdrawFunds fails and emits no event.
C15_WithdrawnOnlyAfterTransfer ==
    last.fn = "withdrawFunds" =>
      /\ (\E i \in DOMAIN last.logs : last.logs[i].name = "FundsWithdrawn")
           => \E j \in DOMAIN last.trace :
                last.trace[j].op = "transfer" /\ last.trace[j].success
      /\ (\E j \in DOMAIN last.trace :
            last.trace[j].op = "transfer" /\ ~last.trace[j].success)
           => (~last.ok /\ last.logs = <<>>)

-----------------------------------------------------------------------------
(* Properties of the execution orchestrator, checked under SpecOrchestrator *)

Active(fingerprint) ==
    {i \in DOMAIN executions :
        /\ executions[i].opportunityFingerprint = fingerprint
        /\ executions[i].status \notin Terminal}

\* C5: a fingerprint never has more than one non-terminal execution, and a
\* submit for a fingerprint that has one changes nothing, so of duplicate
\* submits only one is sent to the chain.
C5_AtMostOneActive ==
    /\ \A f \in Fingerprints : Cardinality(Active(f)) <= 1
    /\ [][/\ \A f \in Fingerprints : Cardinality(Active(f)') <= 1
          /\ \A f \in Fingerprints :
               (lastSubmit'.opportunityFingerprint = f /\ Active(f) # {})
                 => /\ executions' = executions
                    /\ ~lastSubmit'.accepted
          /\ \A f \in Fingerprints :
               (lastSubmit'.opportunityFingerprint = f /\ Active(f) = {})
                 => /\ lastSubmit'.accepted
                    /\ Len(executions') = Len(executions) + 1
                    /\ Active(f)' = {Len(executions')}]_vars

\* a duplicate was refused while the first execution of its fingerprint is
\* on the chain, after an earlier execution of that fingerprint had ended
C5_Witness ==
    /\ lastSubmit.opportunityFingerprint \in Fingerprints
    /\ ~lastSubmit.accepted
    /\ \E i, j \in DOMAIN executions :
         /\ executions[i].opportunityFingerprint = lastSubmit.opportunityFingerprint
         /\ executions[i].status = "SUBMITTED"
         /\ executions[j].opportunityFingerprint = lastSubmit.opportunityFingerprint
         /\ executions[j].status \in Terminal

-----------------------------------------------------------------------------
(* Properties of the dashboards, checked under SpecDashboard *)

\* C6 as stated: every request goes out while the API key is not empty and
\* carries Bearer <the API key current when the request goes out>.
C6_RequestsCarryCurrentKey ==
    \A i \in DOMAIN sent :
        /\ sent[i].current # ""
        /\ sent[i].auth = Authorization(sent[i].current)

\* C6, amended: every request carries Bearer <key> with a key that is not
\* empty: the key its fetchData or toggleTrading invocation started with.
\* For toggleTrading, for the first request of fetchData and for all three
\* requests of page.jsx that is the key current when the request goes out;
\* the /trades and /market-data requests of index.js carry the key of the
\* invocation that sends them, whatever the field holds by then.
C6_RequestsCarryStartKey ==
    \A i \in DOMAIN sent :
        /\ sent[i].auth.scheme = "Bearer"
        /\ sent[i].auth.credential # ""
        /\ sent[i].auth.credential \in Keys
        /\ (page = "app" \/ sent[i].endpoint \in {"config", "opportunities"})
             => /\ sent[i].auth.credential = sent[i].current
                /\ sent[i].current = apiKey
        /\ (page = "pages" /\ sent[i].endpoint \in {"trades", "market-data"})
             => \E j \in DOMAIN jobs :
                  /\ jobs[j].stage = sent[i].endpoint
                  /\ jobs[j].key = sent[i].auth.credential

\* index.js sends /trades with the key of its invocation after the field
\* was emptied
C6_Witness ==
    /\ page = "pages"
    /\ apiKey = ""
    /\ \E i \in DOMAIN sent :
         /\ sent[i].endpoint = "trades"
         /\ sent[i].auth.credential = "k1"

\* C7 as stated: the toggle enables and disables, so once the config write
\* has been sent twice both values of automated_trading have been carried.
C7_ToggleCarriesBothValues ==
    Len(configLog) >= 2 =>
      \E i, j \in DOMAIN configLog : configLog[i] # configLog[j]

\* what the code does instead: every config write carries true
C7_EveryConfigWriteEnables ==
    \A i \in DOMAIN configLog : configLog[i] = TRUE

\* C16: in both dashboards a response that is not ok, or a request that
\* throws, leaves the state of its query (opportunities, trades, market
\* data) as it was; market data is never replaced by an empty list.
C16_FailedQueryKeepsDisplay ==
    [][/\ \A i \in 1..MaxJobs, o \in Outcomes, l \in ResponseLists,
             m \in MarketSnapshots :
            (fetchDataResume(i, o, l, m) /\ o # "ok")
              => /\ jobs[i].stage = "opportunities" => opportunities' = opportunities
                 /\ jobs[i].stage = "trades" => trades' = trades
                 /\ jobs[i].stage = "market-data" => marketData' = marketData
       /\ \A i \in 1..MaxJobs, os \in [1..3 -> Outcomes],
             ls \in [1..2 -> ResponseLists], m \in MarketSnapshots :
            fetchDataResumeAll(i, os, ls, m)
              => /\ os[1] # "ok" => opportunities' = opportunities
                 /\ os[2] # "ok" => trades' = trades
                 /\ os[3] # "ok" => marketData' = marketData
       /\ marketData' = "[]" => marketData = "[]"]_vars

-----------------------------------------------------------------------------
(* Properties of what the dashboards show, checked under SpecFeed *)

\* the entries of list that came over the websocket are its first ones, and
\* they are the most recent of the count received, newest first
MostRecentFirst(list, count) ==
    \A j \in DOMAIN list : list[j] # 0 => list[j] = count - j + 1

\* history is the last keep of the count points received, oldest first
LastInArrivalOrder(history, count, keep) ==
    history = [j \in 1..Min(count, keep) |-> count - Min(count, keep) + j]

\* C11: in every reachable state, after any interleaving of websocket
\* messages and query responses, the opportunities list and the trades list
\* hold at most 10 entries each, the most recently received ones newest
\* first, and the price history holds the last 20 points at most, in arrival
\* order.
C11_BoundedBuffers ==
    /\ Len(opportunities) <= KeepOpportunities
    /\ Len(trades) <= KeepTrades
    /\ Len(priceHistory) <= KeepHistory
    /\ MostRecentFirst(opportunities, received.opportunity)
    /\ MostRecentFirst(trades, received.trade)
    /\ LastInArrivalOrder(priceHistory, received.price, KeepHistory)

\* what does hold of the buffers: the bounds and the order of the price
\* history, the order of the websocket entries of both lists, and the bound
\* of a list right after a websocket message was added to it
FeedKeepsBounds ==
    /\ Len(priceHistory) <= KeepHistory
    /\ LastInArrivalOrder(priceHistory, received.price, KeepHistory)
    /\ MostRecentFirst(opportunities, received.opportunity)
    /\ MostRecentFirst(trades, received.trade)
    /\ [][/\ received.opportunity' # received.opportunity
             => /\ Len(opportunities') <= KeepOpportunities
                /\ opportunities'[1] = received.opportunity'
          /\ received.trade' # received.trade
             => /\ Len(trades') <= KeepTrades
                /\ trades'[1] = received.trade']_vars

-----------------------------------------------------------------------------
(* Properties of the websocket, checked under SpecSocket and FairSpecSocket *)

\* connections that are open or connecting, and reconnects that are scheduled
Live ==
    Cardinality({i \in DOMAIN sockets : sockets[i] \in {"CONNECTING", "OPEN"}})
      + timers

\* the close event of connection i has been dispatched
Closed(i) ==
    i \in DOMAIN sockets /\ sockets[i] = "CLOSED"

\* C12: whenever a connection closes, a reconnect is scheduled and, the
\* event loop being fair to the timer, eventually made: a mounted dashboard
\* is never without a connection and without a pending reconnect, and a
\* closed connection is followed by a new one.
C12_ReconnectLiveness ==
    /\ [](mounted => \/ \E i \in DOMAIN sockets : sockets[i] # "CLOSED"
                     \/ timers > 0)
    /\ \A i \in 1..(MaxSockets - 1) : Closed(i) ~> (Len(sockets) > i)

\* a connection was closed and the reconnect was made
C12_Witness ==
    /\ Len(sockets) >= 2
    /\ Closed(1)
    /\ sockets[2] # "CLOSED"

\* C13: in every reachable state a dashboard has at most one websocket
\* connection that is open or pending (connecting, or scheduled for
\* reconnect), and after the cleanup of the effect has run on unmount no new
\* connection is opened.
C13_SingleLiveConnection ==
    /\ Live <= 1
    /\ ~openedAfterCleanup

\* the first half of C13 alone, which does hold: one chain of connections
AtMostOneLive ==
    Live <= 1

\* C14 as stated: between event handlers isConnected is true if and only if
\* the connection wsRef.current refers to is open; the close event of an
\* older connection never resets isConnected while the current one is open.
C14_IndicatorIffOpen ==
    /\ [](mounted => (isConnected <=> sockets[wsRef] = "OPEN"))
    /\ [][\A i \in 1..MaxSockets :
            (onclose(i) /\ i # wsRef /\ sockets[wsRef] = "OPEN" /\ isConnected)
              => isConnected']_vars

\* C14, amended: while the dashboard is mounted isConnected is true if and
\* only if the connection wsRef.current refers to has had its open event and
\* not yet its close event (it is open or closing), and every older
\* connection is closed, so none has a close event to come.
C14_IndicatorIffOpened ==
    mounted =>
      /\ isConnected <=> sockets[wsRef] \in {"OPEN", "CLOSING"}
      /\ \A i \in DOMAIN sockets : i # wsRef => sockets[i] = "CLOSED"

\* a reconnected dashboard shows connected while its second connection is
\* open, the first one closed
C14_Witness ==
    /\ mounted
    /\ wsRef = 2
    /\ sockets[2] = "OPEN"
    /\ sockets[1] = "CLOSED"
    /\ isConnected

====
